---- MODULE Spec2Model ----
(***************************************************************************)
(* Bookstore storefront: cart, checkout, payment verification, the         *)
(* Razorpay webhook, the order pages, the back-office order status and     *)
(* the homepage sections, modelled handler by handler from the Flask       *)
(* views.  One action is one HTTP request handled to completion.           *)
(***************************************************************************)
EXTENDS Integers, Sequences, FiniteSets, TLC

VARIABLES cart, stock, orders, sections, coupons, last, inflight

vars == <<cart, stock, orders, sections, coupons, last, inflight>>

(***************************************************************************)
(* Bounds of the model.                                                    *)
(***************************************************************************)
MaxOrders == 1        \* orders persisted in one behaviour
MaxCartQty == 2       \* largest quantity a cart line reaches
MaxNegQty == 1        \* most negative quantity a cart line reaches
InitStock == 2        \* stock_on_hand of every inventory row at the start
MaxTime == 3          \* datetime.utcnow() ranges over 0..MaxTime
MaxSections == 2      \* rows of home_sections

(***************************************************************************)
(* Program constants.                                                      *)
(***************************************************************************)
KASHMIR_SHIPPING_RATE == 5000
INDIA_SHIPPING_RATE == 10000
FREE_SHIPPING_THRESHOLD == 150000

(***************************************************************************)
(* NULL column values.  Ids start at 1, datetimes at 1, min_subtotal at 0. *)
(***************************************************************************)
NULL == 0
NoTime == 0 - 1
NoAmount == 0 - 1
NoUser == "None"

Times == 1..MaxTime

(***************************************************************************)
(* Users.  "anon" is the unauthenticated visitor (AnonymousUserMixin).     *)
(***************************************************************************)
Users == {"u1", "u2", "staff", "admin"}
Anonymous == "anon"
Requesters == Users \cup {Anonymous}
UserRole == [u \in Users |->
               CASE u = "staff" -> "STAFF"
                 [] u = "admin" -> "ADMIN"
                 [] OTHER -> "CUSTOMER"]

is_authenticated(u) == u \in Users

(***************************************************************************)
(* Catalogue rows: Price (mrp_inr, sale_inr) and Inventory.                *)
(* Product 1 has a sale price and an inventory row, product 2 has only an  *)
(* MRP and no inventory row, product 3 has an inventory row and no price.  *)
(***************************************************************************)
Products == {1, 2, 3}
InventoryProducts == {1, 3}
PricedProducts == {1, 2}
Price == [p \in PricedProducts |->
            IF p = 1 THEN [mrp_inr |-> 100000, sale_inr |-> 80000]
                     ELSE [mrp_inr |-> 50000, sale_inr |-> NULL]]

\* price.sale_inr or price.mrp_inr
UnitPriceMutant(p) == Price[p].mrp_inr
UnitPrice(p) == IF Price[p].sale_inr # NULL THEN Price[p].sale_inr
                                            ELSE Price[p].mrp_inr

(***************************************************************************)
(* Addresses of the users: Address.state.                                  *)
(***************************************************************************)
AddressIds == {1, 2}
Address == [a \in AddressIds |->
              IF a = 1 THEN [user_id |-> "u1", state |-> "Jammu and Kashmir"]
                       ELSE [user_id |-> "u1", state |-> "Delhi"]]
AddressesOf(u) == {a \in AddressIds : Address[a].user_id = u}

Min(a, b) == IF a <= b THEN a ELSE b

\* int(x / d) of Python: truncation towards zero
TruncDiv(x, d) == IF x >= 0 THEN x \div d ELSE 0 - ((0 - x) \div d)

RECURSIVE SumOver(_, _)
SumOver(f, S) == IF S = {} THEN 0
                 ELSE LET x == CHOOSE y \in S : TRUE
                      IN f[x] + SumOver(f, S \ {x})

(***************************************************************************)
(* Coupons.  A row is [code, type, value, min_subtotal, starts_at,         *)
(* ends_at, is_active]; value is a percentage or an amount in INR.         *)
(***************************************************************************)
CouponIds == {1, 2}

\* str.upper() on the coupon codes a request may carry
Upper(code) == CASE code = "save10" -> "SAVE10"
                 [] code = "Save10" -> "SAVE10"
                 [] code = "flat" -> "FLAT"
                 [] code = "razorpay" -> "RAZORPAY"
                 [] code = "cod" -> "COD"
                 [] OTHER -> code

CodeInputs == {"", "save10", "SAVE10", "FLAT", "flat", "NOPE"}

SeedCoupons ==
  [c \in CouponIds |->
     IF c = 1
     THEN [code |-> "SAVE10", type |-> "PERCENT", value |-> 10,
           min_subtotal |-> NoAmount, starts_at |-> NoTime, ends_at |-> NoTime,
           is_active |-> TRUE]
     ELSE [code |-> "FLAT", type |-> "AMOUNT", value |-> 1000,
           min_subtotal |-> 60000, starts_at |-> 2, ends_at |-> 2,
           is_active |-> TRUE]]

\* the truth value Python gives a nullable Integer column
TruthyInt(x, none) == x # none /\ x # 0

validate_coupon(code, subtotal_paisa, now) ==
  IF code = "" THEN NULL
  ELSE LET found == {c \in DOMAIN coupons :
                       coupons[c].code = Upper(code) /\ coupons[c].is_active}
       IN IF found = {} THEN NULL
          ELSE LET c == CHOOSE x \in found : TRUE
               IN IF coupons[c].starts_at # NoTime /\ now < coupons[c].starts_at
                  THEN NULL
                  ELSE IF coupons[c].ends_at # NoTime /\ now > coupons[c].ends_at
                  THEN NULL
                  ELSE IF TruthyInt(coupons[c].min_subtotal, NoAmount)
                          /\ subtotal_paisa < coupons[c].min_subtotal
                  THEN NULL
                  ELSE c

\* POST /cart/api/validate-coupon: the client sends the code and the subtotal
ajax_validate_coupon(code, subtotal, now) ==
  /\ last' = [op |-> "ajax_validate_coupon", code |-> code,
              subtotal |-> subtotal, now |-> now,
              coupon |-> validate_coupon(code, subtotal, now)]
  /\ UNCHANGED <<cart, stock, orders, sections, coupons, inflight>>

(***************************************************************************)
(* Carts.  cart[r] is the cart of requester r (get_or_create_cart: by      *)
(* user id, or by the session's cart_session_id): product_id -> quantity   *)
(* over the products that have a cart_items row.                           *)
(***************************************************************************)
EmptyCart == [p \in {} |-> 0]

SetItem(c, p, q) == [x \in (DOMAIN c) \cup {p} |-> IF x = p THEN q ELSE c[x]]
RemoveItem(c, p) == [x \in (DOMAIN c) \ {p} |-> c[x]]

QtyRange == (0 - MaxNegQty)..MaxCartQty

\* "product.inventory and quantity > product.inventory.stock_on_hand"
ExceedsStockMutant(p, quantity) == FALSE
ExceedsStock(p, quantity) == p \in InventoryProducts /\ quantity > stock[p]

CartReply(op, who, p, quantity, result) ==
  [op |-> op, who |-> who, product |-> p, quantity |-> quantity, result |-> result]

\* POST /cart/add/<product_id>
add_to_cart(who, product_id, quantity) ==
  LET existing == product_id \in DOMAIN cart[who]
      new_quantity == IF existing THEN cart[who][product_id] + quantity
                                  ELSE quantity
      rejected == \/ quantity <= 0
                  \/ ExceedsStock(product_id, quantity)
                  \/ existing /\ ExceedsStock(product_id, new_quantity)
  IN /\ new_quantity \in QtyRange
     /\ cart' = IF rejected THEN cart
                ELSE [cart EXCEPT ![who] = SetItem(@, product_id, new_quantity)]
     /\ last' = CartReply("add_to_cart", who, product_id, quantity,
                          IF rejected THEN "rejected" ELSE "ok")
     /\ UNCHANGED <<stock, orders, sections, coupons, inflight>>

\* POST /cart/api/add: no test of quantity <= 0
ajax_add_to_cart(who, product_id, quantity) ==
  LET existing == product_id \in DOMAIN cart[who]
      new_quantity == IF existing THEN cart[who][product_id] + quantity
                                  ELSE quantity
      rejected == \/ ExceedsStock(product_id, quantity)
                  \/ existing /\ ExceedsStock(product_id, new_quantity)
  IN /\ new_quantity \in QtyRange
     /\ cart' = IF rejected THEN cart
                ELSE [cart EXCEPT ![who] = SetItem(@, product_id, new_quantity)]
     /\ last' = CartReply("ajax_add_to_cart", who, product_id, quantity,
                          IF rejected THEN "rejected" ELSE "ok")
     /\ UNCHANGED <<stock, orders, sections, coupons, inflight>>

\* POST /cart/update/<item_id>: the item is a row of the requester's cart
update_cart_item(who, product_id, quantity) ==
  /\ product_id \in DOMAIN cart[who]
  /\ cart' = IF quantity <= 0
             THEN [cart EXCEPT ![who] = RemoveItem(@, product_id)]
             ELSE IF ExceedsStock(product_id, quantity) THEN cart
             ELSE [cart EXCEPT ![who] = SetItem(@, product_id, quantity)]
  /\ last' = CartReply("update_cart_item", who, product_id, quantity,
                       IF quantity <= 0 THEN "removed"
                       ELSE IF ExceedsStock(product_id, quantity) THEN "rejected"
                       ELSE "ok")
  /\ UNCHANGED <<stock, orders, sections, coupons, inflight>>

\* GET /cart/remove/<item_id>
remove_cart_item(who, product_id) ==
  /\ product_id \in DOMAIN cart[who]
  /\ cart' = [cart EXCEPT ![who] = RemoveItem(@, product_id)]
  /\ last' = CartReply("remove_cart_item", who, product_id, 0, "removed")
  /\ UNCHANGED <<stock, orders, sections, coupons, inflight>>

(***************************************************************************)
(* Checkout: the totals, the order row and its items.                      *)
(***************************************************************************)
\* the loop over cart_items: items whose product has no price are skipped
cart_subtotal(c) ==
  LET priced == (DOMAIN c) \cap PricedProducts
  IN SumOver([p \in priced |-> UnitPrice(p) * c[p]], priced)

\* int(subtotal * value / 100) or int(value * 100), then min(discount, subtotal)
coupon_discount_uncapped(coupon, subtotal) ==
  IF coupon = NULL THEN 0
  ELSE IF coupons[coupon].type = "PERCENT"
       THEN TruncDiv(subtotal * coupons[coupon].value, 100)
       ELSE coupons[coupon].value * 100

coupon_discount(coupon, subtotal) ==
  IF coupon = NULL THEN 0
  ELSE Min(coupon_discount_uncapped(coupon, subtotal), subtotal)

\* the Kashmir rate for every order below the free-shipping threshold
checkout_shipping(subtotal) ==
  IF subtotal >= FREE_SHIPPING_THRESHOLD THEN 0 ELSE KASHMIR_SHIPPING_RATE

\* utils.helpers.calculate_shipping, which checkout does not call
calculate_shipping(subtotal_paisa, user_state) ==
  IF subtotal_paisa >= FREE_SHIPPING_THRESHOLD THEN 0
  ELSE IF user_state \in {"jammu and kashmir", "j&k", "kashmir"}
       THEN KASHMIR_SHIPPING_RATE
       ELSE INDIA_SHIPPING_RATE

\* str.lower() on the states of the address rows; "" stands for no state
LowerState(state) == CASE state = "Jammu and Kashmir" -> "jammu and kashmir"
                       [] state = "Delhi" -> "delhi"
                       [] OTHER -> state

grand_total_mutant(subtotal, discount, shipping, tax) == subtotal + shipping + tax
grand_total(subtotal, discount, shipping, tax) == subtotal - discount + shipping + tax

order_items(c) ==
  [p \in DOMAIN c |-> [unit_price_inr |-> UnitPrice(p),
                       quantity |-> c[p],
                       line_total_inr |-> UnitPrice(p) * c[p]]]

\* PaymentMethod(value): the enum member with that value, if any
PaymentMethodValues == {"Razorpay", "COD", "UPI"}

\* the Order row built at lines 173-186 and its items (191-203)
NewOrder(who, c, payment_method, coupon_code, address_id, now) ==
  LET subtotal == cart_subtotal(c)
      coupon == IF coupon_code # "" THEN validate_coupon(coupon_code, subtotal, now)
                                    ELSE NULL
      discount == coupon_discount(coupon, subtotal)
      shipping == checkout_shipping(subtotal)
      tax == 0
  IN [user_id |-> IF is_authenticated(who) THEN who ELSE NoUser,
      shipping_address_id |-> address_id,
      subtotal_inr |-> subtotal,
      discount_inr |-> discount,
      shipping_inr |-> shipping,
      tax_inr |-> tax,
      grand_total_inr |-> grand_total(subtotal, discount, shipping, tax),
      status |-> "PENDING",
      payment_status |-> "UNPAID",
      payment_method |-> Upper(payment_method),
      razorpay_order_id |-> NULL,
      razorpay_payment_id |-> NULL,
      items |-> order_items(c)]

\* Cash on Delivery: order.status = PENDING, order.payment_status = UNPAID
cod_confirm_mutant(order) ==
  [order EXCEPT !.status = "PAID", !.payment_status = "PAID"]
cod_confirm(order) ==
  [order EXCEPT !.status = "PENDING", !.payment_status = "UNPAID"]

\* POST /cart/checkout with a valid form.  PaymentMethod('RAZORPAY') raises
\* ValueError (the enum values are 'Razorpay', 'COD', 'UPI'), and a cart item
\* whose product has no price raises AttributeError at line 193: both leave
\* the request with a 500 and nothing persisted.
checkout(who, payment_method, coupon_code, address_id, gateway_ok, now) ==
  LET c == cart[who]
      subtotal == cart_subtotal(c)
      coupon == IF coupon_code # "" THEN validate_coupon(coupon_code, subtotal, now)
                                    ELSE NULL
      raises == \/ Upper(payment_method) \notin PaymentMethodValues
                \/ ~((DOMAIN c) \subseteq PricedProducts)
      order == NewOrder(who, c, payment_method, coupon_code, address_id, now)
      id == Len(orders) + 1
      reply(result, o) == [op |-> "checkout", who |-> who,
                           payment_method |-> payment_method,
                           coupon_code |-> coupon_code, coupon |-> coupon,
                           result |-> result, order |-> o]
  IN /\ DOMAIN c # {}
     /\ address_id \in AddressesOf(who) \cup {NULL}
     /\ IF raises
        THEN /\ last' = reply("error", NULL)
             /\ UNCHANGED <<cart, orders>>
        ELSE IF payment_method = "razorpay"
        THEN IF gateway_ok
             THEN /\ Len(orders) < MaxOrders
                  /\ orders' = Append(orders, [order EXCEPT !.razorpay_order_id = id])
                  /\ last' = reply("payment_page", id)
                  /\ UNCHANGED cart
             ELSE /\ last' = reply("payment_init_failed", NULL)
                  /\ UNCHANGED <<cart, orders>>
        ELSE /\ Len(orders) < MaxOrders
             /\ orders' = Append(orders, cod_confirm(order))
             /\ cart' = [cart EXCEPT ![who] = EmptyCart]
             /\ last' = reply("order_placed", id)
     /\ UNCHANGED <<stock, sections, coupons, inflight>>

(***************************************************************************)
(* Payment: verify_payment and the Razorpay webhook.                       *)
(***************************************************************************)
MaxOversell == 2      \* stock_on_hand stays within -MaxOversell..InitStock+MaxOversell

StockRange == (0 - MaxOversell)..(InitStock + MaxOversell)
OrderIds == 1..Len(orders)

\* Order.query.filter_by(razorpay_order_id=x): a None matches the NULL column
OrdersByRazorpayId(x) == {o \in OrderIds : orders[o].razorpay_order_id = x}

\* .first(): no row, or one of the matching rows (there is no ORDER BY)
First(S) == IF S = {} THEN {NULL} ELSE S

\* for item in order.items: if item.product.inventory: stock_on_hand -= quantity
stock_after_payment_mutant(o) ==
  [p \in DOMAIN stock |->
     IF p \in DOMAIN orders[o].items THEN stock[p] - 1 ELSE stock[p]]
stock_after_payment(o) ==
  [p \in DOMAIN stock |->
     IF p \in DOMAIN orders[o].items
     THEN stock[p] - orders[o].items[p].quantity
     ELSE stock[p]]

mark_paid(o, razorpay_payment_id) ==
  [orders EXCEPT ![o].razorpay_payment_id = razorpay_payment_id,
                 ![o].payment_status = "PAID",
                 ![o].status = "PAID"]

\* POST /cart/payment/verify.  verified is the outcome of
\* verify_razorpay_payment(payment_id, order_id, signature).
verify_payment(who, payment_id, order_id, verified) ==
  LET reply(result, o) == [op |-> "verify_payment", who |-> who,
                           order_id |-> order_id, verified |-> verified,
                           result |-> result, order |-> o]
  IN \E o \in First(OrdersByRazorpayId(order_id)) :
       IF verified /\ o # NULL
       THEN /\ stock_after_payment(o) \in [DOMAIN stock -> StockRange]
            /\ orders' = mark_paid(o, payment_id)
            /\ stock' = stock_after_payment(o)
            /\ cart' = [cart EXCEPT ![who] = EmptyCart]
            /\ last' = reply("confirmed", o)
            /\ UNCHANGED <<sections, coupons, inflight>>
       ELSE /\ last' = reply("failed", NULL)
            /\ UNCHANGED <<cart, stock, orders, sections, coupons, inflight>>

\* The signature header: absent, a text with a non-ASCII character, or the hex
\* digest somebody computed of some body under some key.  HMAC-SHA256 is taken
\* as collision free: a digest is the pair of its key and its message.
NoSecret == ""
EmptyBody == [event |-> "", order_id |-> NULL]
AbsentSignature == [kind |-> "absent", key |-> "", body |-> EmptyBody]
NonAsciiSignature == [kind |-> "nonascii", key |-> "", body |-> EmptyBody]
HmacSha256Hex(key, body) == [kind |-> "hex", key |-> key, body |-> body]

\* hmac.compare_digest(signature, expected): TypeError on None and on a str
\* with non-ASCII characters
CompareDigestRaises(signature) == signature.kind \in {"absent", "nonascii"}

signature_matches(webhook_secret, signature, payload) ==
  signature = HmacSha256Hex(webhook_secret, payload)

\* the status of the response as far as the signature check decides it
webhook_gate(webhook_secret, signature, payload) ==
  IF webhook_secret = NoSecret THEN 400
  ELSE IF CompareDigestRaises(signature) THEN 500
  ELSE IF ~signature_matches(webhook_secret, signature, payload) THEN 400
  ELSE 200

\* "order.payment_status != PaymentStatus.PAID": the captured event is applied
capture_pending_mutant(o) == TRUE
capture_pending(o) == orders[o].payment_status # "PAID"

\* POST /webhook/razorpay
razorpay_webhook(webhook_secret, signature, payload, payment_id) ==
  LET gate == webhook_gate(webhook_secret, signature, payload)
      reply(code, o, applied) ==
        [op |-> "razorpay_webhook", secret |-> webhook_secret,
         signature |-> signature, payload |-> payload, code |-> code,
         order |-> o, applied |-> applied]
  IN IF gate # 200
     THEN /\ last' = reply(gate, NULL, FALSE)
          /\ UNCHANGED <<cart, stock, orders, sections, coupons, inflight>>
     ELSE \E o \in First(OrdersByRazorpayId(payload.order_id)) :
            IF payload.event = "payment.captured" /\ o # NULL
               /\ capture_pending(o)
            THEN /\ stock_after_payment(o) \in [DOMAIN stock -> StockRange]
                 /\ orders' = mark_paid(o, payment_id)
                 /\ stock' = stock_after_payment(o)
                 /\ last' = reply(200, o, TRUE)
                 /\ UNCHANGED <<cart, sections, coupons, inflight>>
            ELSE IF payload.event = "payment.failed" /\ o # NULL
            THEN /\ orders' = [orders EXCEPT ![o].payment_status = "FAILED",
                                             ![o].status = "CANCELLED"]
                 /\ last' = reply(200, o, TRUE)
                 /\ UNCHANGED <<cart, stock, sections, coupons, inflight>>
            ELSE /\ last' = reply(200, o, FALSE)
                 /\ UNCHANGED <<cart, stock, orders, sections, coupons, inflight>>

(***************************************************************************)
(* Concurrent deliveries of a signed 'payment.captured' webhook.  Each     *)
(* delivery runs in its own database session (READ COMMITTED): it reads    *)
(* the order row, then lazily loads the inventory rows of the items and    *)
(* computes the new stock_on_hand in Python, and at commit writes the      *)
(* order row and the values it computed.  inflight[d] is how far delivery  *)
(* d has come and what it has read.                                        *)
(***************************************************************************)
Deliveries == {"d1", "d2"}
NoDeliveries == [d \in Deliveries |-> [pc |-> "idle", order |-> NULL, seen |-> <<>>]]

\* Order.query.filter_by(razorpay_order_id=...).first() and the PAID test
webhook_find(d, order_id) ==
  /\ inflight[d].pc = "idle"
  /\ \E o \in First(OrdersByRazorpayId(order_id)) :
       /\ inflight' = [inflight EXCEPT ![d] =
                         IF o # NULL /\ capture_pending(o)
                         THEN [pc |-> "found", order |-> o, seen |-> <<>>]
                         ELSE [pc |-> "done", order |-> o, seen |-> <<>>]]
       /\ last' = [op |-> "webhook_find", delivery |-> d, order |-> o]
  /\ UNCHANGED <<cart, stock, orders, sections, coupons>>

\* item.product.inventory.stock_on_hand -= item.quantity: the rows are read
\* now, the new values stay in the session until the commit
webhook_load(d) ==
  /\ inflight[d].pc = "found"
  /\ inflight' = [inflight EXCEPT ![d].pc = "loaded", ![d].seen = stock]
  /\ last' = [op |-> "webhook_load", delivery |-> d, order |-> inflight[d].order]
  /\ UNCHANGED <<cart, stock, orders, sections, coupons>>

\* what the commit leaves in inventory: the value computed from the row as it
\* was read, for the products of the order
stock_committed(o, seen) ==
  [p \in DOMAIN stock |->
     IF p \in DOMAIN orders[o].items
     THEN seen[p] - orders[o].items[p].quantity
     ELSE stock[p]]

\* db.session.commit()
webhook_commit(d, razorpay_payment_id) ==
  /\ inflight[d].pc = "loaded"
  /\ stock_committed(inflight[d].order, inflight[d].seen) \in [DOMAIN stock -> StockRange]
  /\ orders' = mark_paid(inflight[d].order, razorpay_payment_id)
  /\ stock' = stock_committed(inflight[d].order, inflight[d].seen)
  /\ inflight' = [inflight EXCEPT ![d].pc = "done"]
  /\ last' = [op |-> "webhook_commit", delivery |-> d, order |-> inflight[d].order]
  /\ UNCHANGED <<cart, sections, coupons>>

(***************************************************************************)
(* The customer's order pages.                                             *)
(***************************************************************************)
\* "if current_user.is_authenticated: if order.user_id != current_user.id"
order_page_served(who, o) ==
  ~(is_authenticated(who) /\ orders[o].user_id # who)

\* GET /cart/order/<order_id>/success
order_success(who, o) ==
  /\ o \in OrderIds
  /\ last' = [op |-> "order_success", who |-> who, order |-> o,
              served |-> order_page_served(who, o)]
  /\ UNCHANGED <<cart, stock, orders, sections, coupons, inflight>>

\* GET /cart/order/<order_id>
order_detail(who, o) ==
  /\ o \in OrderIds
  /\ last' = [op |-> "order_detail", who |-> who, order |-> o,
              served |-> order_page_served(who, o)]
  /\ UNCHANGED <<cart, stock, orders, sections, coupons, inflight>>

(***************************************************************************)
(* The back office.                                                        *)
(***************************************************************************)
\* flask_login.login_required: an anonymous request is sent to the login page
login_required(who) == is_authenticated(who)

\* apps.admin.routes_new.admin_required
admin_required(who) ==
  login_required(who) /\ UserRole[who] \in {"ADMIN", "STAFF"}

\* OrderStatus(value)
OrderStatusValues == {"Pending", "Paid", "Packed", "Shipped", "Delivered",
                      "Cancelled", "Refunded"}
OrderStatusByValue(v) == CASE v = "Pending" -> "PENDING"
                           [] v = "Paid" -> "PAID"
                           [] v = "Packed" -> "PACKED"
                           [] v = "Shipped" -> "SHIPPED"
                           [] v = "Delivered" -> "DELIVERED"
                           [] v = "Cancelled" -> "CANCELLED"
                           [] v = "Refunded" -> "REFUNDED"

\* POST /admin/orders/<order_id>/status
update_order_status(who, o, new_status) ==
  LET reply(result) == [op |-> "update_order_status", who |-> who, order |-> o,
                        status |-> new_status, result |-> result]
  IN /\ o \in OrderIds
     /\ IF ~admin_required(who)
        THEN /\ last' = reply("denied")
             /\ UNCHANGED <<orders, inflight>>
        ELSE IF new_status \in OrderStatusValues
        THEN /\ orders' = [orders EXCEPT ![o].status = OrderStatusByValue(new_status)]
             /\ last' = reply("updated")
        ELSE /\ last' = reply("error")
             /\ UNCHANGED <<orders, inflight>>
     /\ UNCHANGED <<cart, stock, sections, coupons, inflight>>

(***************************************************************************)
(* Homepage sections.  sections maps the id of each home_sections row to   *)
(* [position, is_active, start_at, end_at].                                *)
(***************************************************************************)
SectionIds == 1..MaxSections

\* HomeSection.is_scheduled_active, with the value utcnow() returned
is_scheduled_active_mutant(s, now) ==
  IF ~s.is_active THEN FALSE
  ELSE IF s.start_at # NoTime /\ now <= s.start_at THEN FALSE
  ELSE IF s.end_at # NoTime /\ now > s.end_at THEN FALSE
  ELSE TRUE
is_scheduled_active(s, now) ==
  IF ~s.is_active THEN FALSE
  ELSE IF s.start_at # NoTime /\ now < s.start_at THEN FALSE
  ELSE IF s.end_at # NoTime /\ now > s.end_at THEN FALSE
  ELSE TRUE

\* the orders in which a query may list the rows S under ORDER BY position
OrderedByPosition(S) ==
  {q \in [1..Cardinality(S) -> S] :
     /\ \A i, j \in DOMAIN q : i # j => q[i] # q[j]
     /\ \A i, j \in DOMAIN q : i < j => sections[q[i]].position <= sections[q[j]].position}

\* HomeSection.get_active_sections
get_active_sections ==
  OrderedByPosition({id \in DOMAIN sections : sections[id].is_active})

\* the list comprehension of get_scheduled_active_sections over the rows q;
\* clock[i] is what utcnow() returns while row q[i] is examined
RECURSIVE scheduled_active(_, _, _)
scheduled_active(q, clock, i) ==
  IF i > Len(q) THEN <<>>
  ELSE (IF is_scheduled_active(sections[q[i]], clock[i]) THEN <<q[i]>> ELSE <<>>)
       \o scheduled_active(q, clock, i + 1)

\* the clock does not run backwards during a request
Clocks(n) == {c \in [1..n -> Times] : \A i, j \in 1..n : i < j => c[i] <= c[j]}

\* GET /: the sections handed to the template, in order
index ==
  /\ \E q \in get_active_sections : \E clock \in Clocks(Len(q)) :
       last' = [op |-> "index", listed |-> q, clock |-> clock,
                rendered |-> scheduled_active(q, clock, 1)]
  /\ UNCHANGED <<cart, stock, orders, sections, coupons, inflight>>

HomeReply(op, who, id, result) ==
  [op |-> op, who |-> who, section |-> id, result |-> result]

\* blueprints/admin/home_sections.py imports HomeSection, SectionType and
\* MediaAsset from models and never binds validate_section_config: the call at
\* lines 38 and 99 raises NameError inside the handler's try.
ValidateSectionConfigBound == FALSE

\* POST /admin/home/new
new_section(who, is_active, start_at, end_at) ==
  LET taken == DOMAIN sections
      id == CHOOSE x \in SectionIds \cup {MaxSections + 1} : x \notin taken
      positions == {sections[x].position : x \in taken}
      max_position == IF positions = {} THEN 0
                      ELSE CHOOSE m \in positions : \A n \in positions : n <= m
  IN /\ IF ~login_required(who)
        THEN /\ last' = HomeReply("new_section", who, NULL, "login")
             /\ UNCHANGED <<sections, inflight>>
        ELSE IF ~ValidateSectionConfigBound
        THEN /\ last' = HomeReply("new_section", who, NULL, "error")
             /\ UNCHANGED <<sections, inflight>>
        ELSE /\ id \in SectionIds
             /\ sections' = [x \in taken \cup {id} |->
                               IF x = id
                               THEN [position |-> max_position + 1,
                                     is_active |-> is_active,
                                     start_at |-> start_at, end_at |-> end_at]
                               ELSE sections[x]]
             /\ last' = HomeReply("new_section", who, id, "created")
     /\ UNCHANGED <<cart, stock, orders, coupons, inflight>>

\* POST /admin/home/<section_id>/edit
edit_section(who, id, is_active, start_at, end_at) ==
  /\ IF ~login_required(who)
     THEN /\ last' = HomeReply("edit_section", who, id, "login")
          /\ UNCHANGED <<sections, inflight>>
     ELSE /\ id \in DOMAIN sections
          /\ IF ~ValidateSectionConfigBound
             THEN /\ last' = HomeReply("edit_section", who, id, "error")
                  /\ UNCHANGED <<sections, inflight>>
             ELSE /\ sections' = [sections EXCEPT ![id].is_active = is_active,
                                                  ![id].start_at = start_at,
                                                  ![id].end_at = end_at]
                  /\ last' = HomeReply("edit_section", who, id, "updated")
  /\ UNCHANGED <<cart, stock, orders, coupons, inflight>>

\* the loop of reorder_sections over the posted items [id, position]
RECURSIVE apply_positions(_, _, _)
apply_positions(secs, items, i) ==
  IF i > Len(items) THEN secs
  ELSE apply_positions(
         IF items[i].id \in DOMAIN secs
         THEN [secs EXCEPT ![items[i].id].position = items[i].position]
         ELSE secs,
         items, i + 1)

\* POST /admin/home/reorder
reorder_sections(who, items) ==
  /\ IF ~login_required(who)
     THEN /\ last' = HomeReply("reorder_sections", who, NULL, "login")
          /\ UNCHANGED <<sections, inflight>>
     ELSE /\ sections' = apply_positions(sections, items, 1)
          /\ last' = HomeReply("reorder_sections", who, NULL, "reordered")
  /\ UNCHANGED <<cart, stock, orders, coupons, inflight>>

\* PATCH /admin/home/<section_id>/toggle
toggle_section(who, id) ==
  /\ IF ~login_required(who)
     THEN /\ last' = HomeReply("toggle_section", who, id, "login")
          /\ UNCHANGED <<sections, inflight>>
     ELSE IF id \notin DOMAIN sections
     THEN /\ last' = HomeReply("toggle_section", who, id, "error")
          /\ UNCHANGED <<sections, inflight>>
     ELSE /\ sections' = [sections EXCEPT ![id].is_active = ~@]
          /\ last' = HomeReply("toggle_section", who, id, "toggled")
  /\ UNCHANGED <<cart, stock, orders, coupons, inflight>>

\* DELETE /admin/home/<section_id>/delete
delete_section(who, id) ==
  /\ IF ~login_required(who)
     THEN /\ last' = HomeReply("delete_section", who, id, "login")
          /\ UNCHANGED <<sections, inflight>>
     ELSE IF id \notin DOMAIN sections
     THEN /\ last' = HomeReply("delete_section", who, id, "error")
          /\ UNCHANGED <<sections, inflight>>
     ELSE /\ sections' = [x \in (DOMAIN sections) \ {id} |-> sections[x]]
          /\ last' = HomeReply("delete_section", who, id, "deleted")
  /\ UNCHANGED <<cart, stock, orders, coupons, inflight>>

(***************************************************************************)
(* Homepage section configs.  A Python value is [t, v]: its type and what  *)
(* it holds.  A form (request.form) maps field names to texts; Missing     *)
(* marks a field the request does not carry.                               *)
(***************************************************************************)
SectionTypes ==
  {"hero_slider", "trust_badges", "category_tiles", "featured_collection",
   "new_arrivals", "bestsellers", "staff_picks", "deals_of_day",
   "author_spotlight", "publisher_spotlight", "language_shelf", "kids_corner",
   "quick_order_isbn", "trending_searches", "blog_snippets", "testimonials",
   "newsletter_bar", "info_strip"}

SECTION_SCHEMAS ==
  [ty \in SectionTypes |->
     CASE ty = "hero_slider" ->
            [show_arrows |-> "bool", show_dots |-> "bool",
             autoplay_enabled |-> "bool", autoplay_interval_ms |-> "int",
             transition |-> "str", transition_ms |-> "int"]
       [] ty \in {"trust_badges", "staff_picks", "deals_of_day", "testimonials",
                  "info_strip"} -> [items |-> "list"]
       [] ty = "category_tiles" ->
            [tiles |-> "list", columns_mobile |-> "int", columns_desktop |-> "int"]
       [] ty = "featured_collection" ->
            [data_source |-> "str", manual_product_ids |-> "list",
             query |-> "dict", layout |-> "str"]
       [] ty \in {"new_arrivals", "bestsellers"} ->
            [limit |-> "int", layout |-> "str", show_price_badges |-> "bool"]
       [] ty = "author_spotlight" ->
            [author_id |-> "int", portrait_asset |-> "int", blurb |-> "str"]
       [] ty = "publisher_spotlight" ->
            [publisher_id |-> "int", logo_asset |-> "int", blurb |-> "str"]
       [] ty = "language_shelf" ->
            [languages |-> "list", limit |-> "int", layout |-> "str"]
       [] ty = "kids_corner" ->
            [limit |-> "int", layout |-> "str", banner_asset |-> "int"]
       [] ty = "quick_order_isbn" -> [enable_scanner |-> "bool", note_text |-> "str"]
       [] ty = "trending_searches" -> [terms |-> "list", view_all_link |-> "str"]
       [] ty = "blog_snippets" -> [posts |-> "list"]
       [] ty = "newsletter_bar" ->
            [title |-> "str", subtitle |-> "str", placeholder_text |-> "str",
             submit_label |-> "str"]]

PyBool(b) == [t |-> "bool", v |-> b]
PyInt(n) == [t |-> "int", v |-> n]
PyFloat(n) == [t |-> "float", v |-> n]
PyStr(x) == [t |-> "str", v |-> x]
PyList(q) == [t |-> "list", v |-> q]
PyDict(f) == [t |-> "dict", v |-> f]
PyNone == [t |-> "NoneType", v |-> "None"]

\* isinstance(value, expected_type): bool is a subclass of int
IsInstance(value, expected_type) ==
  \/ value.t = expected_type
  \/ value.t = "bool" /\ expected_type = "int"

Missing == "<missing>"

\* form_data.get(key, default) and form_data.get(key)
FormGet(form_data, key, default) ==
  IF key \in DOMAIN form_data /\ form_data[key] # Missing
  THEN PyStr(form_data[key]) ELSE default

\* form_data.get(key) == 'on'
IsOn(form_data, key) ==
  PyBool(key \in DOMAIN form_data /\ form_data[key] = "on")

\* int(x) and float(x): an int stays, the text of a number is parsed, any
\* other text raises ValueError
NumericTexts == {"0", "1"}
TextToInt(x) == IF x = "1" THEN 1 ELSE 0
ConversionRaises(x) == x.t = "str" /\ x.v \notin NumericTexts
py_int_mutant(x) == x
py_int(x) == IF x.t = "str" THEN PyInt(TextToInt(x.v)) ELSE x
py_float(x) == IF x.t = "str" THEN PyFloat(TextToInt(x.v)) ELSE PyFloat(x.v)

\* range(int(form_data.get('item_count', 0)))
ItemIndexes(count) == IF ConversionRaises(count) THEN {} ELSE 0..(py_int(count).v - 1)

\* the texts of a form field of a repeated item: "item_0_label", ...
ItemField(prefix, i, name) == IF i = 0 THEN prefix \o "_0_" \o name
                                       ELSE prefix \o "_1_" \o name

\* [int(id.strip()) for id in product_ids.split(',') if id.strip().isdigit()]
ProductIdList(x) == IF x.v \in NumericTexts THEN <<PyInt(TextToInt(x.v))>> ELSE <<>>

\* build_config_from_form: [raises, config]
build_config_from_form(section_type, form_data) ==
  LET get(key, default) == FormGet(form_data, key, default)
      on(key) == IsOn(form_data, key)
      done(config) == [raises |-> FALSE, config |-> config]
      failed == [raises |-> TRUE, config |-> <<>>]
      count == get(IF section_type = "category_tiles" THEN "tile_count"
                                                     ELSE "item_count", PyInt(0))
      has_item == 0 \in ItemIndexes(count)
      item(name, default) == get(ItemField("item", 0, name), default)
      tile(name, default) == get(ItemField("tile", 0, name), default)
  IN CASE section_type = "hero_slider" ->
            IF \/ ConversionRaises(get("autoplay_interval_ms", PyInt(5000)))
               \/ ConversionRaises(get("transition_ms", PyInt(600)))
            THEN failed
            ELSE done([show_arrows |-> on("show_arrows"),
                       show_dots |-> on("show_dots"),
                       autoplay_enabled |-> on("autoplay_enabled"),
                       autoplay_interval_ms |->
                         py_int(get("autoplay_interval_ms", PyInt(5000))),
                       transition |-> get("transition", PyStr("fade")),
                       transition_ms |-> py_int(get("transition_ms", PyInt(600)))])
       [] section_type = "trust_badges" ->
            IF ConversionRaises(count) THEN failed
            ELSE LET it == [icon_name |-> item("icon_name", PyStr("")),
                            label |-> item("label", PyStr("")),
                            sublabel |-> item("sublabel", PyStr(""))]
                 IN done([items |-> PyList(IF has_item /\ it.label.v # ""
                                           THEN <<it>> ELSE <<>>)])
       [] section_type = "category_tiles" ->
            IF \/ ConversionRaises(count)
               \/ ConversionRaises(get("columns_mobile", PyInt(2)))
               \/ ConversionRaises(get("columns_desktop", PyInt(4)))
            THEN failed
            ELSE LET it == [title |-> tile("title", PyStr("")),
                            slug |-> tile("slug", PyStr("")),
                            image_url |-> tile("image_url", PyStr("")),
                            accent_color |-> tile("accent_color", PyStr("#E86A17"))]
                 IN done([tiles |-> PyList(IF has_item /\ it.title.v # ""
                                           THEN <<it>> ELSE <<>>),
                          columns_mobile |-> py_int(get("columns_mobile", PyInt(2))),
                          columns_desktop |-> py_int(get("columns_desktop", PyInt(4)))])
       [] section_type \in {"featured_collection", "new_arrivals", "bestsellers"} ->
            IF ConversionRaises(get("limit", PyInt(8))) THEN failed
            ELSE LET base == [data_source |-> get("data_source", PyStr("query")),
                              limit |-> py_int(get("limit", PyInt(8))),
                              layout |-> get("layout", PyStr("grid")),
                              show_price_badges |-> on("show_price_badges")]
                 IN IF base.data_source.v = "manual"
                    THEN done(base @@ ("manual_product_ids" :>
                           PyList(ProductIdList(get("manual_product_ids", PyStr(""))))))
                    ELSE done(base @@ ("query" :>
                           PyDict([category_slug |-> get("category_slug", PyStr("")),
                                   sort |-> get("sort", PyStr("newest"))])))
       [] section_type = "staff_picks" ->
            IF \/ ConversionRaises(count)
               \/ has_item /\ ConversionRaises(item("product_id", PyInt(0)))
            THEN failed
            ELSE LET it == [product_id |-> py_int(item("product_id", PyInt(0))),
                            editor_note |-> item("editor_note", PyStr(""))]
                 IN done([items |-> PyList(IF has_item /\ it.product_id.v # 0
                                           THEN <<it>> ELSE <<>>)])
       [] section_type = "deals_of_day" ->
            IF \/ ConversionRaises(count)
               \/ has_item /\ ConversionRaises(item("product_id", PyInt(0)))
               \/ has_item /\ ConversionRaises(item("deal_price", PyInt(0)))
            THEN failed
            ELSE LET it == [product_id |-> py_int(item("product_id", PyInt(0))),
                            deal_price |-> py_float(item("deal_price", PyInt(0))),
                            ends_at |-> item("ends_at", PyNone)]
                 IN done([items |-> PyList(IF has_item /\ it.product_id.v # 0
                                           THEN <<it>> ELSE <<>>)])
       [] section_type = "author_spotlight" ->
            IF ConversionRaises(get("author_id", PyInt(0))) THEN failed
            ELSE done([author_id |-> py_int(get("author_id", PyInt(0))),
                       portrait_url |-> get("portrait_url", PyStr("")),
                       blurb |-> get("blurb", PyStr(""))])
       [] section_type = "publisher_spotlight" ->
            IF ConversionRaises(get("publisher_id", PyInt(0))) THEN failed
            ELSE done([publisher_id |-> py_int(get("publisher_id", PyInt(0))),
                       logo_url |-> get("logo_url", PyStr("")),
                       blurb |-> get("blurb", PyStr(""))])
       [] section_type = "newsletter_bar" ->
            done([title |-> get("newsletter_title", PyStr("Stay Updated")),
                  subtitle |-> get("newsletter_subtitle",
                                   PyStr("Subscribe to our newsletter")),
                  placeholder_text |-> get("placeholder_text",
                                           PyStr("Enter your email")),
                  submit_label |-> get("submit_label", PyStr("Subscribe"))])
       [] section_type = "quick_order_isbn" ->
            done([enable_scanner |-> on("enable_scanner"),
                  note_text |-> get("note_text", PyStr(""))])
       [] OTHER -> done(<<>>)

\* validate_section_config: [valid, errors], errors being the keys at fault
validate_section_config(section_type, config) ==
  IF section_type \notin DOMAIN SECTION_SCHEMAS
  THEN [valid |-> FALSE, errors |-> {"Unknown section type"}]
  ELSE LET schema == SECTION_SCHEMAS[section_type]
           errors == {key \in DOMAIN schema \cap DOMAIN config :
                        ~IsInstance(config[key], schema[key])}
       IN [valid |-> errors = {}, errors |-> errors]

\* build_config_from_form(section_type, request.form), then
\* validate_section_config(section_type, config) when a config came back
build_and_validate(section_type, form_data) ==
  LET built == build_config_from_form(section_type, form_data)
      checked == IF built.raises THEN [valid |-> FALSE, errors |-> {}]
                 ELSE validate_section_config(section_type, built.config)
  IN /\ last' = [op |-> "build_config_from_form", type |-> section_type,
                 form |-> form_data, raises |-> built.raises,
                 config |-> built.config, valid |-> checked.valid,
                 errors |-> checked.errors]
     /\ UNCHANGED <<cart, stock, orders, sections, coupons, inflight>>

\* validate_section_config on a config from anywhere (the stored JSON column)
validate_config(section_type, config) ==
  LET checked == validate_section_config(section_type, config)
  IN /\ last' = [op |-> "validate_section_config", type |-> section_type,
                 config |-> config, valid |-> checked.valid,
                 errors |-> checked.errors]
     /\ UNCHANGED <<cart, stock, orders, sections, coupons, inflight>>

(***************************************************************************)
(* The initial database and what the requests carry.                       *)
(***************************************************************************)
Shoppers == {"u1", Anonymous}
QtyInputs == QtyRange
PaymentMethodInputs == {"razorpay", "cod"}

\* seed_data.py: active sections at positions 1, 2, ... with no schedule
SeedSections ==
  [id \in SectionIds |-> [position |-> id, is_active |-> TRUE,
                          start_at |-> NoTime, end_at |-> NoTime]]

Init ==
  /\ cart = [r \in Requesters |-> EmptyCart]
  /\ stock = [p \in InventoryProducts |-> InitStock]
  /\ orders = <<>>
  /\ sections = SeedSections
  /\ coupons = SeedCoupons
  /\ last = [op |-> "init"]
  /\ inflight = NoDeliveries

CartRequest(shoppers, products) ==
  \E who \in shoppers, p \in products :
    \/ \E q \in QtyInputs : add_to_cart(who, p, q)
    \/ \E q \in QtyInputs : ajax_add_to_cart(who, p, q)
    \/ \E q \in QtyInputs : update_cart_item(who, p, q)
    \/ remove_cart_item(who, p)

CheckoutRequest ==
  \E who \in Shoppers, m \in PaymentMethodInputs, code \in CodeInputs,
     a \in AddressIds \cup {NULL}, ok \in BOOLEAN, now \in Times :
    checkout(who, m, code, a, ok, now)

(***************************************************************************)
(* The cart requests of u1 for products 1 and 2, where the stock           *)
(* of product 1 is anything from -1 (oversold) up to InitStock.            *)
(***************************************************************************)
InitCart ==
  /\ cart = [r \in Requesters |-> EmptyCart]
  /\ \E n \in (0 - 1)..InitStock :
       stock = [p \in InventoryProducts |-> IF p = 1 THEN n ELSE InitStock]
  /\ orders = <<>>
  /\ sections = SeedSections
  /\ coupons = SeedCoupons
  /\ last = [op |-> "init"]
  /\ inflight = NoDeliveries

NextCart == CartRequest({"u1"}, {1, 2})

SpecCart == InitCart /\ [][NextCart]_vars

(***************************************************************************)
(* Checkout of a cart the cart requests can have built.  ajax_add_to_cart  *)
(* stores any quantity that does not exceed the stock, zero and negative   *)
(* ones included.                                                          *)
(***************************************************************************)
Carts ==
  UNION {{c \in [S -> QtyRange] :
            \A p \in S \cap InventoryProducts : c[p] <= InitStock} :
         S \in SUBSET Products}

InitCheckout ==
  /\ \E who \in Shoppers, c \in Carts :
       cart = [r \in Requesters |-> IF r = who THEN c ELSE EmptyCart]
  /\ stock = [p \in InventoryProducts |-> InitStock]
  /\ orders = <<>>
  /\ sections = SeedSections
  /\ coupons = SeedCoupons
  /\ last = [op |-> "init"]
  /\ inflight = NoDeliveries

NextCheckout == CheckoutRequest

SpecCheckout == InitCheckout /\ [][NextCheckout]_vars

(***************************************************************************)
(* Payment requests and order pages on a database that holds orders        *)
(* checkout has placed.                                                    *)
(***************************************************************************)
\* one unit of product 2 (no inventory row), alone or with the largest or the
\* most negative quantity of product 1 (inventory row)
PaidCarts == {c \in Carts : /\ DOMAIN c \in {{2}, {1, 2}}
                            /\ c[2] = 1
                            /\ 1 \in DOMAIN c => c[1] \in {MaxCartQty, 0 - MaxNegQty}}

\* what checkout persists for such a cart of u1, or for a guest's one unit of
\* product 2
PlacedOrders ==
  {NewOrder("u1", c, "cod", "", NULL, 1) : c \in PaidCarts}
    \cup {NewOrder(Anonymous, SetItem(EmptyCart, 2, 1), "cod", "", NULL, 1)}

WebhookSecretInputs == {NoSecret, "whsec"}
WebhookEvents == {"payment.captured", "payment.failed", "order.paid"}
RazorpayOrderIdInputs == {NULL, 1}
WebhookPayloads ==
  [event : WebhookEvents, order_id : RazorpayOrderIdInputs]

\* what the X-Razorpay-Signature header of a request with this payload may be
SignatureInputs(payload) ==
  {AbsentSignature, NonAsciiSignature,
   HmacSha256Hex("whsec", payload),
   HmacSha256Hex("guess", payload),
   HmacSha256Hex("whsec", [payload EXCEPT !.event = "order.paid"])}

PaymentRequest ==
  \/ \E who \in Shoppers, id \in RazorpayOrderIdInputs, v \in BOOLEAN :
       verify_payment(who, 1, id, v)
  \/ \E secret \in WebhookSecretInputs, payload \in WebhookPayloads :
       \E sig \in SignatureInputs(payload) :
         razorpay_webhook(secret, sig, payload, 1)

OrderPageRequest ==
  \E who \in {"u1", "u2", Anonymous}, o \in 1..MaxOrders :
    \/ order_success(who, o)
    \/ order_detail(who, o)

InitPay ==
  /\ cart = [r \in Requesters |-> IF r = "u1" THEN SetItem(EmptyCart, 2, 1)
                                              ELSE EmptyCart]
  /\ stock = [p \in InventoryProducts |-> InitStock]
  /\ \E n \in 1..MaxOrders : orders \in [1..n -> PlacedOrders]
  /\ sections = SeedSections
  /\ coupons = SeedCoupons
  /\ last = [op |-> "init"]
  /\ inflight = NoDeliveries

NextPay == PaymentRequest \/ OrderPageRequest

SpecPay == InitPay /\ [][NextPay]_vars

(***************************************************************************)
(* Coupon validation on the coupon tables the database may hold.           *)
(***************************************************************************)
CouponTables ==
  {[c \in CouponIds |->
      IF c = 1 THEN SeedCoupons[1]
      ELSE [code |-> code, type |-> "AMOUNT", value |-> 1000,
            min_subtotal |-> m, starts_at |-> s, ends_at |-> e,
            is_active |-> act]] :
   code \in {"FLAT", "flat"}, m \in {NoAmount, 0, 60000},
   s \in {NoTime, 2}, e \in {NoTime, 2}, act \in BOOLEAN}

SubtotalInputs == {0 - 1, 0, 50000, 60000}

InitCoupon ==
  /\ cart = [r \in Requesters |-> EmptyCart]
  /\ stock = [p \in InventoryProducts |-> InitStock]
  /\ orders = <<>>
  /\ sections = SeedSections
  /\ coupons \in CouponTables
  /\ last = [op |-> "init"]
  /\ inflight = NoDeliveries

NextCoupon ==
  \E code \in CodeInputs, subtotal \in SubtotalInputs, now \in Times :
    ajax_validate_coupon(code, subtotal, now)

SpecCoupon == InitCoupon /\ [][NextCoupon]_vars

(***************************************************************************)
(* The homepage and the back office on a database that holds one order and *)
(* sections with any schedule.                                             *)
(***************************************************************************)
\* the seeded sections, the first one with any schedule around time 2
SectionTables ==
  {[SeedSections EXCEPT ![1].start_at = s, ![1].end_at = e] :
     s \in {NoTime, 2}, e \in {NoTime, 2}}

ReorderItems == [id : SectionIds, position : SectionIds]
ReorderInputs == {<<x>> : x \in ReorderItems}
OrderStatusInputs == {"Shipped", "SHIPPED"}

HomeRequest ==
  \/ index
  \/ \E who \in Requesters, act \in BOOLEAN : new_section(who, act, NoTime, NoTime)
  \/ \E who \in Requesters, id \in SectionIds, act \in BOOLEAN :
       edit_section(who, id, act, NoTime, NoTime)
  \/ \E who \in Requesters, items \in ReorderInputs : reorder_sections(who, items)
  \/ \E who \in Requesters, id \in SectionIds : toggle_section(who, id)
  \/ \E who \in Requesters, id \in SectionIds : delete_section(who, id)

AdminRequest ==
  \E who \in Requesters, o \in 1..MaxOrders, st \in OrderStatusInputs :
    update_order_status(who, o, st)

InitAdmin ==
  /\ cart = [r \in Requesters |-> EmptyCart]
  /\ stock = [p \in InventoryProducts |-> InitStock]
  /\ orders = <<NewOrder("u1", SetItem(EmptyCart, 1, 1), "cod", "", NULL, 1)>>
  /\ sections \in SectionTables
  /\ coupons = SeedCoupons
  /\ last = [op |-> "init"]
  /\ inflight = NoDeliveries

NextAdmin == HomeRequest \/ AdminRequest

SpecAdmin == InitAdmin /\ [][NextAdmin]_vars

(***************************************************************************)
(* The homepage on any table of sections: any positions (ties included),   *)
(* any activity, the first section with any schedule around time 2.        *)
(***************************************************************************)
HomeTables ==
  {t \in [SectionIds -> [position : SectionIds, is_active : BOOLEAN,
                         start_at : {NoTime, 2}, end_at : {NoTime, 2}]] :
     \A id \in SectionIds \ {1} : t[id].start_at = NoTime /\ t[id].end_at = NoTime}

InitHome ==
  /\ cart = [r \in Requesters |-> EmptyCart]
  /\ stock = [p \in InventoryProducts |-> InitStock]
  /\ orders = <<>>
  /\ sections \in HomeTables
  /\ coupons = SeedCoupons
  /\ last = [op |-> "init"]
  /\ inflight = NoDeliveries

NextHome == index

SpecHome == InitHome /\ [][NextHome]_vars

(***************************************************************************)
(* Section configs: every section type, with the forms the section editor  *)
(* can post for it, and configs as the JSON column can hold them.          *)
(***************************************************************************)
CheckboxFields == {"show_arrows", "show_dots", "autoplay_enabled",
                   "show_price_badges", "enable_scanner"}

NumberFields == {"autoplay_interval_ms", "transition_ms", "item_count",
                 "tile_count", "columns_mobile", "columns_desktop", "limit",
                 "item_0_product_id", "item_0_deal_price", "author_id",
                 "publisher_id"}

FormFields(section_type) ==
  CASE section_type = "hero_slider" ->
         {"show_arrows", "show_dots", "autoplay_enabled", "autoplay_interval_ms",
          "transition", "transition_ms"}
    [] section_type = "trust_badges" ->
         {"item_count", "item_0_icon_name", "item_0_label", "item_0_sublabel"}
    [] section_type = "category_tiles" ->
         {"tile_count", "tile_0_title", "tile_0_slug", "tile_0_image_url",
          "tile_0_accent_color", "columns_mobile", "columns_desktop"}
    [] section_type \in {"featured_collection", "new_arrivals", "bestsellers"} ->
         {"data_source", "limit", "layout", "show_price_badges",
          "manual_product_ids", "category_slug", "sort"}
    [] section_type = "staff_picks" ->
         {"item_count", "item_0_product_id", "item_0_editor_note"}
    [] section_type = "deals_of_day" ->
         {"item_count", "item_0_ends_at", "item_0_product_id", "item_0_deal_price"}
    [] section_type = "author_spotlight" -> {"author_id", "portrait_url", "blurb"}
    [] section_type = "publisher_spotlight" -> {"publisher_id", "logo_url", "blurb"}
    [] section_type = "newsletter_bar" ->
         {"newsletter_title", "newsletter_subtitle", "placeholder_text",
          "submit_label"}
    [] section_type = "quick_order_isbn" -> {"enable_scanner", "note_text"}
    [] OTHER -> {}

\* what a request may carry in a field: nothing, the checkbox text, the text
\* of a number, a text that is no number
FieldInputs(field) ==
  CASE field \in CheckboxFields -> {Missing, "on"}
    [] field \in NumberFields -> {Missing, "0", "1", "on"}
    [] field = "data_source" -> {Missing, "manual", "on"}
    [] field = "manual_product_ids" -> {Missing, "1", "on"}
    [] OTHER -> {Missing, "on"}

FormTexts == {Missing, "on", "0", "1", "manual"}

FormInputs(section_type) ==
  {form_data \in [FormFields(section_type) -> FormTexts] :
     \A field \in FormFields(section_type) :
       form_data[field] \in FieldInputs(field)}

StoredTypes == {"new_arrivals", "author_spotlight"}

StoredConfigs ==
  << <<>>,
     [limit |-> PyInt(8), layout |-> PyStr("grid")],
     [limit |-> PyBool(TRUE), layout |-> PyStr("grid")],
     [limit |-> PyStr("8"), layout |-> PyStr("grid")],
     [limit |-> PyInt(8), layout |-> PyInt(1)],
     [limit |-> PyStr("8"), show_price_badges |-> PyInt(1)],
     [author_id |-> PyInt(1), portrait_url |-> PyStr("p.png")],
     [author_id |-> PyStr("1"), portrait_url |-> PyStr("p.png")],
     [author_id |-> PyNone, blurb |-> PyStr("on")],
     [blurb |-> PyList(<<>>), portrait_asset |-> PyInt(1)],
     [blurb |-> PyStr("on"), portrait_asset |-> PyFloat(1)] >>

\* the request at hand: a posted section form, or a config read back
InitConfig ==
  /\ cart = [r \in Requesters |-> EmptyCart]
  /\ stock = [p \in InventoryProducts |-> InitStock]
  /\ orders = <<>>
  /\ sections = SeedSections
  /\ coupons = SeedCoupons
  /\ inflight = NoDeliveries
  /\ \/ \E section_type \in SectionTypes :
          \E form_data \in FormInputs(section_type) :
            last = [op |-> "section_form", type |-> section_type,
                    form |-> form_data]
     \/ \E section_type \in StoredTypes, i \in DOMAIN StoredConfigs :
          last = [op |-> "stored_config", type |-> section_type,
                  config |-> StoredConfigs[i]]

NextConfig ==
  \/ last.op = "section_form" /\ build_and_validate(last.type, last.form)
  \/ last.op = "stored_config" /\ validate_config(last.type, last.config)

SpecConfig == InitConfig /\ [][NextConfig]_vars

(***************************************************************************)
(* The whole shop, from the seeded database.                               *)
(***************************************************************************)
Next ==
  \/ CartRequest(Shoppers, Products)
  \/ CheckoutRequest
  \/ PaymentRequest
  \/ OrderPageRequest
  \/ NextCoupon
  \/ HomeRequest
  \/ AdminRequest

Spec == Init /\ [][Next]_vars

(***************************************************************************)
(* Two concurrent deliveries of the captured event for the orders checkout *)
(* has placed.                                                             *)
(***************************************************************************)
InitRace == InitPay

NextRace ==
  \E d \in Deliveries :
    \/ \E id \in RazorpayOrderIdInputs : webhook_find(d, id)
    \/ webhook_load(d)
    \/ webhook_commit(d, 1)

SpecRace == InitRace /\ [][NextRace]_vars

(***************************************************************************)
(* Properties.                                                             *)
(***************************************************************************)
Range(q) == {q[i] : i \in DOMAIN q}

BackOfficeOps == {"update_order_status", "new_section", "edit_section",
                  "reorder_sections", "toggle_section", "delete_section"}

InWindow(s, t) ==
  /\ (s.start_at = NoTime \/ s.start_at <= t)
  /\ (s.end_at = NoTime \/ t <= s.end_at)

CorrectlySigned(reply) ==
  /\ reply.secret # NoSecret
  /\ reply.signature = [kind |-> "hex", key |-> reply.secret, body |-> reply.payload]

\* C1: a correctly signed 'payment.captured' webhook for an order that is not
\* PAID leaves the order with payment_status PAID and status PAID, takes each
\* item's quantity off the stock of its product when the product has an
\* inventory row, and leaves the stock of every other product as it was.
C1_CapturedWebhookPaysAndDecrements ==
  [][(/\ last'.op = "razorpay_webhook"
      /\ CorrectlySigned(last')
      /\ last'.payload.event = "payment.captured"
      /\ last'.order # NULL
      /\ orders[last'.order].payment_status # "PAID")
     => LET o == last'.order
        IN /\ orders[o].razorpay_order_id = last'.payload.order_id
           /\ orders'[o].payment_status = "PAID"
           /\ orders'[o].status = "PAID"
           /\ \A p \in InventoryProducts :
                stock'[p] = stock[p] - (IF p \in DOMAIN orders[o].items
                                        THEN orders[o].items[p].quantity ELSE 0)
           /\ DOMAIN stock' = InventoryProducts]_vars

\* C1 witness: a captured webhook has just paid an order of two units of
\* product 1 (inventory row) and an item of product 2 (no inventory row).
C1_Witness ==
  /\ last.op = "razorpay_webhook"
  /\ last.payload.event = "payment.captured"
  /\ last.applied
  /\ orders[last.order].payment_status = "PAID"
  /\ DOMAIN orders[last.order].items = {1, 2}
  /\ orders[last.order].items[1].quantity = 2
  /\ stock[1] = InitStock - 2

\* C2: the webhook changes no order and no stock unless a secret is configured
\* and the signature header equals the HMAC-SHA256 hex digest of the body; a
\* request whose signature does not match, or that arrives while no secret is
\* configured, is answered with 400 and changes nothing.
C2_UnsignedWebhookGets400 ==
  [][last'.op = "razorpay_webhook" /\ ~CorrectlySigned(last')
     => /\ last'.code = 400
        /\ orders' = orders
        /\ stock' = stock]_vars

\* The part of C2 that holds: without a matching signature nothing changes.
WebhookUnsignedChangesNothing ==
  [][last'.op = "razorpay_webhook" /\ ~CorrectlySigned(last')
     => /\ last'.code \in {400, 500}
        /\ orders' = orders
        /\ stock' = stock]_vars

\* C3: every order checkout persisted has grand_total_inr = subtotal_inr -
\* discount_inr + shipping_inr + tax_inr, and tax_inr = 0.
C3_GrandTotal ==
  \A o \in OrderIds :
    /\ orders[o].tax_inr = 0
    /\ orders[o].grand_total_inr =
         orders[o].subtotal_inr - orders[o].discount_inr
         + orders[o].shipping_inr + orders[o].tax_inr

\* C3 witness: an order placed with an accepted coupon and a shipping charge.
C3_Witness ==
  /\ last.op = "checkout"
  /\ last.result = "order_placed"
  /\ last.coupon # NULL
  /\ orders[last.order].discount_inr > 0
  /\ orders[last.order].shipping_inr > 0

\* C4: for every persisted order 0 <= discount_inr <= subtotal_inr and
\* grand_total_inr >= shipping_inr >= 0 (every coupon of the table has a
\* non-negative value), and an order placed with no coupon or with a rejected
\* coupon code has discount_inr = 0.
C4_DiscountWithinSubtotal ==
  /\ \A o \in OrderIds :
       /\ 0 <= orders[o].discount_inr
       /\ orders[o].discount_inr <= orders[o].subtotal_inr
       /\ orders[o].grand_total_inr >= orders[o].shipping_inr
       /\ orders[o].shipping_inr >= 0
  /\ (last.op = "checkout" /\ last.order # NULL /\ last.coupon = NULL)
       => orders[last.order].discount_inr = 0

\* C5: validate_coupon returns a coupon exactly when the code is non-empty, an
\* active coupon has the upper-cased code, the time is within starts_at and
\* ends_at where they are set, and the subtotal is at least min_subtotal where
\* it is set; the coupon returned is the one with that code.
C5_ValidateCouponIff ==
  last.op = "ajax_validate_coupon"
  => LET accepted(c) ==
           /\ coupons[c].is_active
           /\ coupons[c].code = Upper(last.code)
           /\ (coupons[c].starts_at # NoTime => last.now >= coupons[c].starts_at)
           /\ (coupons[c].ends_at # NoTime => last.now <= coupons[c].ends_at)
           /\ (coupons[c].min_subtotal # NoAmount
                 => last.subtotal >= coupons[c].min_subtotal)
     IN /\ (last.coupon # NULL)
             <=> (last.code # "" /\ \E c \in DOMAIN coupons : accepted(c))
        /\ (last.coupon # NULL => coupons[last.coupon].code = Upper(last.code))

\* C6: a back-office request by an anonymous visitor or by a CUSTOMER changes
\* no order and no homepage section.
C6_OnlyStaffChangeBackOffice ==
  [][(/\ last'.op \in BackOfficeOps
      /\ ~(last'.who \in Users /\ UserRole[last'.who] \in {"ADMIN", "STAFF"}))
     => /\ orders' = orders
        /\ sections' = sections]_vars

\* C7: the shipping_inr of an order with a shipping address is 0 exactly when
\* its subtotal is at least FREE_SHIPPING_THRESHOLD, and otherwise it is what
\* calculate_shipping gives for the subtotal and the state of that address.
C7_ShippingAsCalculateShipping ==
  \A o \in OrderIds :
    /\ (orders[o].shipping_inr = 0)
         <=> (orders[o].subtotal_inr >= FREE_SHIPPING_THRESHOLD)
    /\ orders[o].shipping_address_id # NULL
         => orders[o].shipping_inr =
              calculate_shipping(orders[o].subtotal_inr,
                                 LowerState(Address[orders[o].shipping_address_id].state))

\* C8: the order pages serve an order that has a user_id to nobody but that
\* user.
C8_OrderPagesOnlyForOwner ==
  (/\ last.op \in {"order_success", "order_detail"}
   /\ orders[last.order].user_id # NoUser
   /\ last.who # orders[last.order].user_id)
  => ~last.served

\* C9: the homepage is handed exactly the sections that are active and whose
\* window holds the time read when the section is examined (no start or no end
\* is no limit, the limits themselves are inside), each once, in ascending
\* position.
C9_HomepageShowsScheduledActive ==
  last.op = "index"
  => LET r == last.rendered
     IN /\ \A id \in DOMAIN sections :
             sections[id].is_active => \E i \in DOMAIN last.listed : last.listed[i] = id
        /\ \A i \in DOMAIN last.listed :
             (last.listed[i] \in Range(r))
               <=> (/\ sections[last.listed[i]].is_active
                    /\ InWindow(sections[last.listed[i]], last.clock[i]))
        /\ Range(r) \subseteq Range(last.listed)
        /\ \A i, j \in DOMAIN r :
             i < j => /\ r[i] # r[j]
                      /\ sections[r[i]].position <= sections[r[j]].position

\* C9 witness: the homepage shows section 1, examined at the instant that is
\* both the start and the end of its window, after section 2, which has the
\* lower position.
C9_Witness ==
  /\ last.op = "index"
  /\ Len(last.rendered) = 2
  /\ last.rendered[1] = 2
  /\ last.rendered[2] = 1
  /\ sections[2].position < sections[1].position
  /\ sections[1].start_at = last.clock[2]
  /\ sections[1].end_at = last.clock[2]

\* C10: when add_to_cart or update_cart_item stores a quantity for a product
\* with an inventory row, the stored quantity (the existing one plus the added
\* one for add_to_cart) is at most the stock read in the request; a request for
\* a quantity above the stock leaves the carts as they were.
C10_CartWithinStock ==
  [][(/\ last'.op \in {"add_to_cart", "update_cart_item"}
      /\ last'.product \in InventoryProducts
      /\ last'.quantity > 0)
     => LET who == last'.who
            p == last'.product
            wanted == IF last'.op = "add_to_cart" /\ p \in DOMAIN cart[who]
                      THEN cart[who][p] + last'.quantity
                      ELSE last'.quantity
        IN /\ last'.result = "ok"
                => /\ p \in DOMAIN cart'[who]
                   /\ cart'[who][p] = wanted
                   /\ cart'[who][p] <= stock[p]
           /\ wanted > stock[p] => cart' = cart]_vars

\* C10 witness: add_to_cart has just refused to raise an existing cart line
\* above the stock.
C10_Witness ==
  /\ last.op = "add_to_cart"
  /\ last.result = "rejected"
  /\ last.quantity > 0
  /\ last.product \in InventoryProducts
  /\ last.product \in DOMAIN cart[last.who]
  /\ last.quantity <= stock[last.product]
  /\ cart[last.who][last.product] + last.quantity > stock[last.product]

\* C11: a correctly signed 'payment.captured' webhook whose order is already
\* PAID changes no order and no stock, so redeliveries leave the state of the
\* first delivery.
C11_CapturedRedeliveryChangesNothing ==
  [][(/\ last'.op = "razorpay_webhook"
      /\ CorrectlySigned(last')
      /\ last'.payload.event = "payment.captured"
      /\ last'.order # NULL
      /\ orders[last'.order].payment_status = "PAID")
     => /\ orders' = orders
        /\ stock' = stock
        /\ cart' = cart]_vars

\* C11 witness: a captured event has just been delivered for an order that was
\* already PAID, and the stock shows one decrement of its two units.
C11_Witness ==
  /\ last.op = "razorpay_webhook"
  /\ last.code = 200
  /\ last.payload.event = "payment.captured"
  /\ last.order # NULL
  /\ ~last.applied
  /\ orders[last.order].payment_status = "PAID"
  /\ 1 \in DOMAIN orders[last.order].items
  /\ orders[last.order].items[1].quantity = 2
  /\ stock[1] = InitStock - 2

\* C12: over any sequence of verify_payment calls and captured / failed
\* webhook deliveries each order is decremented from the stock at most once:
\* the stock taken off the products is what some set of the orders, each
\* counted once, holds of them.
C12_StockRemovedAtMostOnce ==
  \E S \in SUBSET OrderIds :
    \A p \in InventoryProducts :
      InitStock - stock[p]
        = SumOver([o \in S |-> IF p \in DOMAIN orders[o].items
                               THEN orders[o].items[p].quantity ELSE 0], S)

\* C13: when concurrent deliveries of the captured event have all finished,
\* every PAID order has been taken off the stock exactly once and no decrement
\* is lost: the stock of each product is the initial stock less what the PAID
\* orders hold of it.
C13_ConcurrentDeliveriesDecrementOnce ==
  (\A d \in Deliveries : inflight[d].pc \in {"idle", "done"})
  => LET paid == {o \in OrderIds : orders[o].payment_status = "PAID"}
     IN \A p \in InventoryProducts :
          stock[p] = InitStock
                     - SumOver([o \in paid |-> IF p \in DOMAIN orders[o].items
                                               THEN orders[o].items[p].quantity
                                               ELSE 0], paid)

\* C14: stock_on_hand is never negative.
C14_StockNeverNegative ==
  \A p \in InventoryProducts : stock[p] >= 0

\* C15: once an order is PAID no webhook event makes its payment_status FAILED
\* or its status CANCELLED.
C15_PaidStaysPaid ==
  [][last'.op = "razorpay_webhook"
     => \A o \in OrderIds :
          orders[o].payment_status = "PAID"
            => /\ orders'[o].payment_status # "FAILED"
               /\ orders'[o].status # "CANCELLED"]_vars

\* C16: an order checkout persists has one item per cart item, with the cart's
\* quantity, the sale price of the product when that is set and not zero and
\* its MRP otherwise as unit_price_inr, and line_total_inr = unit_price_inr *
\* quantity; its subtotal_inr is the sum of the line totals; every product of
\* the cart has a price.
C16_OrderItemsAndSubtotal ==
  [][(last'.op = "checkout" /\ last'.order # NULL)
     => LET o == orders'[last'.order]
            c == cart[last'.who]
            unit(p) == IF Price[p].sale_inr \notin {NULL, 0}
                       THEN Price[p].sale_inr ELSE Price[p].mrp_inr
        IN /\ DOMAIN c \subseteq PricedProducts
           /\ DOMAIN o.items = DOMAIN c
           /\ \A p \in DOMAIN c :
                /\ o.items[p].quantity = c[p]
                /\ o.items[p].unit_price_inr = unit(p)
                /\ o.items[p].line_total_inr = unit(p) * c[p]
           /\ o.subtotal_inr
                = SumOver([p \in DOMAIN c |-> o.items[p].line_total_inr], DOMAIN c)]_vars

\* C16 witness: an order of two units of product 1 (sale price) and one unit
\* of product 2 (MRP only) has just been placed.
C16_Witness ==
  /\ last.op = "checkout"
  /\ last.result = "order_placed"
  /\ DOMAIN orders[last.order].items = {1, 2}
  /\ orders[last.order].items[1].quantity = 2
  /\ orders[last.order].items[2].quantity = 1
  /\ orders[last.order].subtotal_inr = 210000

\* C17: a Cash-on-Delivery checkout that places an order persists it with
\* status PENDING and payment_status UNPAID, empties the buyer's cart and
\* leaves every stock_on_hand as it was.
C17_CodCheckoutFrame ==
  [][(last'.op = "checkout" /\ last'.payment_method = "cod"
      /\ last'.result = "order_placed")
     => /\ Len(orders') = Len(orders) + 1
        /\ last'.order = Len(orders')
        /\ orders'[last'.order].status = "PENDING"
        /\ orders'[last'.order].payment_status = "UNPAID"
        /\ DOMAIN cart'[last'.who] = {}
        /\ stock' = stock]_vars

\* C17 witness: a COD order holding an inventory product has just been placed,
\* the buyer's cart is empty and the stock is the initial one.
C17_Witness ==
  /\ last.op = "checkout"
  /\ last.payment_method = "cod"
  /\ last.result = "order_placed"
  /\ 1 \in DOMAIN orders[last.order].items
  /\ orders[last.order].items[1].quantity > 0
  /\ orders[last.order].status = "PENDING"
  /\ DOMAIN cart[last.who] = {}
  /\ stock[1] = InitStock

\* every pair of a schema key and a config key on which the validator looks
SharedKeys(section_type, config) ==
  DOMAIN SECTION_SCHEMAS[section_type] \cap DOMAIN config

\* C18: every SectionType has an entry in SECTION_SCHEMAS; whenever
\* build_config_from_form returns a config (it did not raise), for any section
\* type and any form, validate_section_config answers valid with no errors;
\* and validate_section_config answers valid exactly when every key that is
\* in both the schema and the config holds a value of the schema's type.
C18_BuiltConfigIsValid ==
  /\ DOMAIN SECTION_SCHEMAS = SectionTypes
  /\ (last.op = "build_config_from_form" /\ ~last.raises)
       => last.valid /\ last.errors = {}
  /\ (\/ last.op = "validate_section_config"
      \/ last.op = "build_config_from_form" /\ ~last.raises)
       => (last.valid <=>
             \A key \in SharedKeys(last.type, last.config) :
               \/ last.config[key].t = SECTION_SCHEMAS[last.type][key]
               \/ /\ last.config[key].t = "bool"
                  /\ SECTION_SCHEMAS[last.type][key] = "int")

\* a featured collection built from a form with numbers in it: a manual list
\* of one product and a limit, next to keys the schema does not know
C18_Witness ==
  /\ last.op = "build_config_from_form"
  /\ last.type = "featured_collection"
  /\ ~last.raises
  /\ last.form["limit"] = "1"
  /\ "manual_product_ids" \in DOMAIN last.config
  /\ Len(last.config["manual_product_ids"].v) = 1
  /\ "limit" \in DOMAIN last.config
  /\ last.valid

====
